---- MODULE Spec2Model ----
(***************************************************************************)
(* The regex-based template renderer of preview-theme-enhanced.py          *)
(* (render_template) as a state machine.  Text is a sequence of tokens:    *)
(* the characters the regular expressions distinguish are one token each   *)
(* ("{", "}", "%", the double quote, "|", " ", "\n"); a run of word        *)
(* characters that the patterns never split (a keyword, a name, a value)   *)
(* is one token of the class Word.                                         *)
(***************************************************************************)
EXTENDS Integers, Sequences, FiniteSets, TLC

\* ------------------------------------------------------------------ tokens
LB == "{"
RB == "}"
PCT == "%"
SP == " "
NL == "\n"
QUOTE == "\""
BAR == "|"
DOT == "."
SLASH == "/"
\* default\(value=   and   \)   of the default pattern
DEFAULT_OPEN == "default(value="
DEFAULT_CLOSE == ")"
\* the two literal parts of the f-string of replace_include
MARK_OPEN == "<!-- Include not found: "
MARK_CLOSE == " -->"
\* read past either end of a text
EOT == ""
\* '?' of a request path
QUERY == "?"

\* \s : the whitespace the templates use
WS == {SP, NL}

\* \w+ : tokens made of word characters only
Word ==
    {"extends", "block", "endblock", "include", "default",
     "a", "b", "x", "y", "d", "e", "1", "2", "3",
     "present", "missing", "Acme", "v",
     "site", "name", "tagline", "year", "stripe_public_key",
     "RustPress", "Modern", "CMS", "Built", "with", "Rust", "2026", "pk_test_demo",
     "base", "inc", "templates", "t",
     "title", "body", "Default", "Hello", "root", "r", "q", "z",
     "features", "other", "assets", "posts"}

\* ------------------------------------------------------------------ text helpers
At(s, i) == IF i >= 1 /\ i <= Len(s) THEN s[i] ELSE EOT

Sub(s, i, j) == SubSeq(s, i, j)

FirstIdx(S) == IF S = {} THEN 0 ELSE CHOOSE j \in S : \A k \in S : j <= k

\* greedy \s* from position i: the first position that holds no whitespace
RECURSIVE SkipWS(_, _)
SkipWS(s, i) == IF At(s, i) \in WS THEN SkipWS(s, i + 1) ELSE i

\* \w* taking the dot of a dotted key for a word character
RECURSIVE SkipWord_Dots(_, _)
SkipWord_Dots(s, i) == IF At(s, i) \in Word \cup {DOT} THEN SkipWord_Dots(s, i + 1) ELSE i

\* greedy \w* from position i
RECURSIVE SkipWord(_, _)
SkipWord(s, i) == IF At(s, i) \in Word THEN SkipWord(s, i + 1) ELSE i

HasNL(s, i, j) == \E k \in i..j : s[k] = NL

\* s contains t as a contiguous run
OccursAt(s, t, i) == i >= 1 /\ i + Len(t) - 1 <= Len(s) /\ Sub(s, i, i + Len(t) - 1) = t

Contains(s, t) == \E i \in 1..(Len(s) + 1) : OccursAt(s, t, i)

RECURSIVE Flatten(_)
Flatten(ss) == IF ss = <<>> THEN <<>> ELSE Head(ss) \o Flatten(Tail(ss))

\* ------------------------------------------------------------------ patterns
\* A match: the position of its last token and its groups; end = 0 is no match.
NoMatch == [end |-> 0, g1 |-> <<>>, g2 |-> <<>>]

\* \{%\s*KW\s*"([^"]+)"\s*%\}   (KW = extends, include) anchored at i
QuotedDirectiveAt(s, i, kw) ==
    IF ~(At(s, i) = LB /\ At(s, i + 1) = PCT) THEN NoMatch ELSE
    LET k == SkipWS(s, i + 2) IN
    IF At(s, k) # kw THEN NoMatch ELSE
    LET q1 == SkipWS(s, k + 1) IN
    IF At(s, q1) # QUOTE THEN NoMatch ELSE
    LET q2 == FirstIdx({j \in (q1 + 1)..Len(s) : s[j] = QUOTE}) IN
    IF q2 = 0 \/ q2 = q1 + 1 THEN NoMatch ELSE
    LET e == SkipWS(s, q2 + 1) IN
    IF At(s, e) = PCT /\ At(s, e + 1) = RB
    THEN [end |-> e + 1, g1 |-> Sub(s, q1 + 1, q2 - 1), g2 |-> <<>>]
    ELSE NoMatch

\* \{%\s*block\s+(\w+)\s*%\}   anchored at i
BlockOpenAt(s, i) ==
    IF ~(At(s, i) = LB /\ At(s, i + 1) = PCT) THEN NoMatch ELSE
    LET k == SkipWS(s, i + 2) IN
    IF At(s, k) # "block" THEN NoMatch ELSE
    LET n1 == SkipWS(s, k + 1) IN
    IF n1 = k + 1 THEN NoMatch ELSE
    LET n2 == SkipWord(s, n1) IN
    IF n2 = n1 THEN NoMatch ELSE
    LET e == SkipWS(s, n2) IN
    IF At(s, e) = PCT /\ At(s, e + 1) = RB
    THEN [end |-> e + 1, g1 |-> Sub(s, n1, n2 - 1), g2 |-> <<>>]
    ELSE NoMatch

\* \{%\s*endblock\s*%\}   anchored at i: the position of its last token, or 0
BlockCloseAt(s, i) ==
    IF ~(At(s, i) = LB /\ At(s, i + 1) = PCT) THEN 0 ELSE
    LET k == SkipWS(s, i + 2) IN
    IF At(s, k) # "endblock" THEN 0 ELSE
    LET e == SkipWS(s, k + 1) IN
    IF At(s, e) = PCT /\ At(s, e + 1) = RB THEN e + 1 ELSE 0

\* block_pattern anchored at i.  (.*?) is lazy: the body ends at the first
\* close directive; without re.DOTALL "." does not match a line break, and a
\* line break before the first close directive leaves no match at i.
BlockAt(s, i, dotall) ==
    LET o == BlockOpenAt(s, i) IN
    IF o.end = 0 THEN NoMatch ELSE
    LET c == FirstIdx({j \in (o.end + 1)..Len(s) : BlockCloseAt(s, j) # 0}) IN
    IF c = 0 \/ (~dotall /\ HasNL(s, o.end + 1, c - 1)) THEN NoMatch
    ELSE [end |-> BlockCloseAt(s, c), g1 |-> o.g1, g2 |-> Sub(s, o.end + 1, c - 1)]

\* \{\{\s*\w+\s*\|\s*default\(value="([^"]+)"\)\s*\}\}   anchored at i
DefaultAt(s, i) ==
    IF ~(At(s, i) = LB /\ At(s, i + 1) = LB) THEN NoMatch ELSE
    LET n1 == SkipWS(s, i + 2) IN
    LET n2 == SkipWord(s, n1) IN
    IF n2 = n1 THEN NoMatch ELSE
    LET b == SkipWS(s, n2) IN
    IF At(s, b) # BAR THEN NoMatch ELSE
    LET d == SkipWS(s, b + 1) IN
    IF ~(At(s, d) = DEFAULT_OPEN /\ At(s, d + 1) = QUOTE) THEN NoMatch ELSE
    LET q2 == FirstIdx({j \in (d + 2)..Len(s) : s[j] = QUOTE}) IN
    IF q2 = 0 \/ q2 = d + 2 THEN NoMatch ELSE
    IF At(s, q2 + 1) # DEFAULT_CLOSE THEN NoMatch ELSE
    LET e == SkipWS(s, q2 + 2) IN
    IF At(s, e) = RB /\ At(s, e + 1) = RB
    THEN [end |-> e + 1, g1 |-> Sub(s, d + 2, q2 - 1), g2 |-> Sub(s, n1, n2 - 1)]
    ELSE NoMatch

\* a name with attribute lookups, name(.name)*, from position i: the position
\* after it, or i
RECURSIVE SkipDotted(_, _)
SkipDotted(s, i) ==
    IF At(s, i) \notin Word THEN i
    ELSE IF At(s, i + 1) = DOT /\ At(s, i + 2) \in Word THEN SkipDotted(s, i + 2)
    ELSE i + 1

\* The expression statement {{ expr | default(value="literal") }} as the Jinja2
\* environment of theme-server.py reads it, anchored at i: expr is a name with
\* attribute lookups, the filter is the one registered as 'default'.
JinjaDefaultAt(s, i) ==
    IF ~(At(s, i) = LB /\ At(s, i + 1) = LB) THEN NoMatch ELSE
    LET n1 == SkipWS(s, i + 2) IN
    LET n2 == SkipDotted(s, n1) IN
    IF n2 = n1 THEN NoMatch ELSE
    LET b == SkipWS(s, n2) IN
    IF At(s, b) # BAR THEN NoMatch ELSE
    LET d == SkipWS(s, b + 1) IN
    IF ~(At(s, d) = DEFAULT_OPEN /\ At(s, d + 1) = QUOTE) THEN NoMatch ELSE
    LET q2 == FirstIdx({j \in (d + 2)..Len(s) : s[j] = QUOTE}) IN
    IF q2 = 0 THEN NoMatch ELSE
    IF At(s, q2 + 1) # DEFAULT_CLOSE THEN NoMatch ELSE
    LET e == SkipWS(s, q2 + 2) IN
    IF At(s, e) = RB /\ At(s, e + 1) = RB
    THEN [end |-> e + 1, g1 |-> Sub(s, d + 2, q2 - 1), g2 |-> Sub(s, n1, n2 - 1)]
    ELSE NoMatch

\* \{%.*?%\}  (o2 = "%")  and  \{\{.*?\}\}  (o2 = "{"), anchored at i, no DOTALL
SpanAt(s, i, o2, c1) ==
    IF ~(At(s, i) = LB /\ At(s, i + 1) = o2) THEN NoMatch ELSE
    LET c == FirstIdx({j \in (i + 2)..(Len(s) - 1) : s[j] = c1 /\ s[j + 1] = RB}) IN
    IF c = 0 \/ HasNL(s, i + 2, c - 1) THEN NoMatch ELSE [end |-> c + 1, g1 |-> <<>>, g2 |-> <<>>]

MatchAt(pat, s, i) ==
    CASE pat = "extends" -> QuotedDirectiveAt(s, i, "extends")
      [] pat = "include" -> QuotedDirectiveAt(s, i, "include")
      [] pat = "block_dotall" -> BlockAt(s, i, TRUE)
      [] pat = "block" -> BlockAt(s, i, FALSE)
      [] pat = "default" -> DefaultAt(s, i)
      [] pat = "tag" -> SpanAt(s, i, PCT, PCT)
      [] pat = "var" -> SpanAt(s, i, LB, RB)

\* the leftmost position >= pos where pat matches, or 0 (re.search / one scan step)
NextMatchPos(pat, s, pos) ==
    FirstIdx({i \in pos..Len(s) : MatchAt(pat, s, i).end # 0})

\* ------------------------------------------------------------------ configuration
\* Paths are token sequences relative to THEME_DIR; "/" joins a directory and a
\* relative path.
THEME_DIR == <<>>
TEMPLATES_DIR == THEME_DIR \o <<"templates", SLASH>>

\* SITE_DATA, in insertion order (dict iteration order)
SITE_DATA ==
    << [key |-> <<"site", DOT, "name">>, value |-> <<"RustPress">>],
       [key |-> <<"site", DOT, "tagline">>,
        value |-> <<"Modern", SP, "CMS", SP, "Built", SP, "with", SP, "Rust">>],
       [key |-> <<"site", DOT, "year">>, value |-> <<"2026">>],
       [key |-> <<"site", DOT, "stripe_public_key">>, value |-> <<"pk_test_demo">>] >>

\* Path.exists() is true of a file and of a directory; a directory is on disk
\* when a file lies under it.
IsFile(fs, p) == p \in DOMAIN fs
IsDirectory(fs, p) ==
    \E q \in DOMAIN fs :
        Len(q) > Len(p) + 1 /\ SubSeq(q, 1, Len(p)) = p /\ q[Len(p) + 1] = SLASH
Exists(fs, p) == IsFile(fs, p) \/ IsDirectory(fs, p)

\* ------------------------------------------------------------------ re.sub, str.replace
\* replace_block erasing every region, whatever the child declares
replace_block_Erase(match, blocks_) == <<>>

\* replace_block filling a region the child does not declare with a body the
\* child declares under another name
replace_block_Any(match, blocks_) ==
    IF match.g1 \in DOMAIN blocks_ THEN blocks_[match.g1]
    ELSE IF DOMAIN blocks_ # {} THEN blocks_[CHOOSE n \in DOMAIN blocks_ : TRUE]
    ELSE <<>>

\* replace_block: the child's body for the block name, else the empty string
replace_block(match, blocks_) ==
    IF match.g1 \in DOMAIN blocks_ THEN blocks_[match.g1] ELSE <<>>

\* replace_include with the missing file read as empty text
replace_include_Silent(match, fs) ==
    LET include_path == THEME_DIR \o match.g1 IN
    IF include_path \in DOMAIN fs THEN fs[include_path] ELSE <<>>

\* replace_include looking for the file beside the top-level template
replace_include_Sibling(match, fs) ==
    LET include_path == TEMPLATES_DIR \o match.g1 IN
    IF include_path \in DOMAIN fs
    THEN fs[include_path]
    ELSE <<MARK_OPEN>> \o match.g1 \o <<MARK_CLOSE>>

\* replace_include: the file's text, else the diagnostic comment
replace_include(match, fs) ==
    LET include_path == THEME_DIR \o match.g1 IN
    IF include_path \in DOMAIN fs
    THEN fs[include_path]
    ELSE <<MARK_OPEN>> \o match.g1 \o <<MARK_CLOSE>>

\* A value of a Jinja2 expression: a string, or Undefined (a name or an
\* attribute the render call was not given).  Undefined is false and renders as
\* the empty string; a string is false when it is empty.
Undefined == [kind |-> "undefined", text |-> <<>>]
Str(s) == [kind |-> "str", text |-> s]

\* the value of the expression key in the keyword arguments of template.render
Lookup(data, key) ==
    IF \E k \in 1..Len(data) : data[k].key = key
    THEN Str(data[CHOOSE k \in 1..Len(data) : data[k].key = key].value)
    ELSE Undefined

\* the default filter answering the literal whatever the value
tera_default_Literal(val, value) == value

\* theme-server.py: def tera_default(val, value=''): return val if val else value
tera_default(val, value) == IF val.kind # "undefined" /\ val.text # <<>> THEN val ELSE value

\* what the filtered expression statement matched as m renders as
Filtered(data, m) == tera_default(Lookup(data, m.g2), Str(m.g1)).text

\* template.render(**data) of a template of text and filtered expression
\* statements, from position i
RECURSIVE JinjaRender(_, _, _)
JinjaRender(data, s, i) ==
    IF i > Len(s) THEN <<>>
    ELSE IF JinjaDefaultAt(s, i) = NoMatch THEN <<s[i]>> \o JinjaRender(data, s, i + 1)
    ELSE Filtered(data, JinjaDefaultAt(s, i))
             \o JinjaRender(data, s, JinjaDefaultAt(s, i).end + 1)

\* replace_default returning the identifier's text instead of the literal
replace_default_Ident(match) == match.g2

\* replace_default: group 1, the quoted literal
replace_default(match) == match.g1

Replacement(pat, env, m) ==
    CASE pat = "block" -> replace_block(m, env)
      [] pat = "include" -> replace_include(m, env)
      [] pat = "default" -> replace_default(m)
      [] pat = "tag" -> <<>>
      [] pat = "var" -> <<>>

\* re.sub(pat, repl, s): leftmost non-overlapping matches, left to right, from pos
RECURSIVE ReSub(_, _, _, _)
ReSub(pat, env, s, pos) ==
    LET i == NextMatchPos(pat, s, pos) IN
    IF i = 0 THEN Sub(s, pos, Len(s))
    ELSE LET m == MatchAt(pat, s, i) IN
         Sub(s, pos, i - 1) \o Replacement(pat, env, m) \o ReSub(pat, env, s, m.end + 1)

\* the matches of re.finditer(pat, s), in order, from pos
RECURSIVE FindIter(_, _, _)
FindIter(pat, s, pos) ==
    LET i == NextMatchPos(pat, s, pos) IN
    IF i = 0 THEN <<>>
    ELSE LET m == MatchAt(pat, s, i) IN <<m>> \o FindIter(pat, s, m.end + 1)

\* s.replace(old, new): every non-overlapping occurrence, left to right, from pos
RECURSIVE StrReplace(_, _, _, _)
StrReplace(s, old, new, pos) ==
    LET i == FirstIdx({j \in pos..(Len(s) - Len(old) + 1) : OccursAt(s, old, j)}) IN
    IF i = 0 THEN Sub(s, pos, Len(s))
    ELSE Sub(s, pos, i - 1) \o new \o StrReplace(s, old, new, i + Len(old))

\* ------------------------------------------------------------------ the stages
\* the Block Map keeping the first declaration of a name
RECURSIVE FillBlocks_FirstWins(_, _)
FillBlocks_FirstWins(ms, acc) ==
    IF ms = <<>> THEN acc
    ELSE LET m == Head(ms) IN
         FillBlocks_FirstWins(Tail(ms),
             [n \in DOMAIN acc \cup {m.g1} |-> IF n \in DOMAIN acc THEN acc[n] ELSE m.g2])

\* blocks = {}; for match in finditer(block_pattern, content, DOTALL):
\*     blocks[match.group(1)] = match.group(2)
RECURSIVE FillBlocks(_, _)
FillBlocks(ms, acc) ==
    IF ms = <<>> THEN acc
    ELSE LET m == Head(ms) IN
         FillBlocks(Tail(ms),
                    [n \in DOMAIN acc \cup {m.g1} |-> IF n = m.g1 THEN m.g2 ELSE acc[n]])

ExtractBlocks(child) == FillBlocks(FindIter("block_dotall", child, 1), <<>>)

\* re.sub(block_pattern, replace_block, base_content): no flags, so no DOTALL
SubstituteBlocks(base_content, blocks_) == ReSub("block", blocks_, base_content, 1)

\* the include stage run again on its own output
ResolveIncludes_Twice(s, fs) == ReSub("include", fs, ReSub("include", fs, s, 1), 1)

\* re.sub(include pattern, replace_include, content)
ResolveIncludes(s, fs) == ReSub("include", fs, s, 1)

SpacedForm(key) == <<LB, LB, SP>> \o key \o <<SP, RB, RB>>
\* the unspaced form written with the spaces of the spaced one
UnspacedForm_AsSpaced(key) == <<LB, LB, SP>> \o key \o <<SP, RB, RB>>
UnspacedForm(key) == <<LB, LB>> \o key \o <<RB, RB>>

\* for key, value in data.items(): the two replace calls, pair by pair
RECURSIVE ReplaceVars(_, _)
ReplaceVars(data, s) ==
    IF data = <<>> THEN s
    ELSE LET kv == Head(data) IN
         LET s1 == StrReplace(s, SpacedForm(kv.key), kv.value, 1) IN
         LET s2 == StrReplace(s1, UnspacedForm(kv.key), kv.value, 1) IN
         ReplaceVars(Tail(data), s2)

\* the loop of render_template iterates SITE_DATA; the context argument is not read
SubstitutionData(context_) == SITE_DATA

CollapseDefaults(s) == ReSub("default", <<>>, s, 1)

\* re.sub(r'\{%.*?%\}', '', content) then re.sub(r'\{\{.*?\}\}', '', content)
StripDirectives(s) == ReSub("tag", <<>>, s, 1)
StripPlaceholders(s) == ReSub("var", <<>>, s, 1)
Strip(s) == StripPlaceholders(StripDirectives(s))

\* ------------------------------------------------------------------ inputs
\* Bounds of the explored inputs: the number of pieces a text is built from.
MaxPieces == 2
MaxBlocks == 2
MaxBasePieces == 2
MaxRaw == 4

RECURSIVE SeqsUpTo(_, _)
SeqsUpTo(S, n) ==
    IF n = 0 THEN {<<>>}
    ELSE LET shorter == SeqsUpTo(S, n - 1) IN
         shorter \cup {Append(q, p) : q \in shorter, p \in S}

TextsOf(Pieces, n) == {Flatten(q) : q \in SeqsUpTo(Pieces, n)}

Directive(kw, path) == <<LB, PCT, SP, kw, SP, QUOTE>> \o path \o <<QUOTE, SP, PCT, RB>>
BlockOpen(name) == <<LB, PCT, SP, "block", SP>> \o name \o <<SP, PCT, RB>>
EndBlock == <<LB, PCT, SP, "endblock", SP, PCT, RB>>
BlockDecl(name, body) == BlockOpen(name) \o body \o EndBlock
Placeholder(sp, key) == <<LB, LB>> \o sp \o key \o sp \o <<RB, RB>>
DefaultPlaceholder(ident, lit) ==
    <<LB, LB, SP>> \o ident \o <<SP, BAR, SP, DEFAULT_OPEN, QUOTE>> \o lit
        \o <<QUOTE, DEFAULT_CLOSE, SP, RB, RB>>

SiteName == <<"site", DOT, "name">>
Present == <<"present">>
Literal == <<"Acme">>
BlockA == <<"a">>
BlockB == <<"b">>

\* the quoted paths the templates use, and the files they name
BaseRef == <<"base">>
IncRef == <<"inc">>
TopPath == TEMPLATES_DIR \o <<"t">>
BasePath == THEME_DIR \o BaseRef
IncPath == THEME_DIR \o IncRef

\* a template without inheritance is built from these
FlatPieces ==
    { <<"x">>,
      Directive("extends", BaseRef),
      Directive("include", IncRef),
      Placeholder(<<SP>>, SiteName),
      Placeholder(<<>>, SiteName),
      Placeholder(<<SP, SP>>, SiteName),
      Placeholder(<<NL>>, SiteName),
      Placeholder(<<SP>>, Present),
      DefaultPlaceholder(Present, Literal) }

\* a child is an extends directive followed by block declarations
ChildPieces ==
    { BlockDecl(BlockA, <<"1">>), BlockDecl(BlockA, <<"2">>), BlockDecl(BlockB, <<"3">>) }

\* a base is built from text and block regions with default bodies
BasePieces ==
    { <<"x">>,
      BlockDecl(BlockA, <<"d">>),
      BlockDecl(BlockA, <<"d", NL, "d">>),
      BlockDecl(BlockB, <<"e">>) }

\* the file an include directive names, when it exists
IncText == <<"y">> \o Placeholder(<<SP>>, SiteName) \o Directive("include", IncRef)

FlatTexts == TextsOf(FlatPieces, MaxPieces)
ChildTexts == {Directive("extends", BaseRef) \o c : c \in TextsOf(ChildPieces, MaxBlocks)}
BaseTexts == TextsOf(BasePieces, MaxBasePieces)

\* the fragments the stripper is tried on: delimiters alone and whole spans
RawPieces ==
    { <<LB>>, <<RB>>, <<PCT>>, <<LB, PCT>>, <<PCT, RB>>, <<LB, LB>>, <<RB, RB>>, <<NL>>,
      <<LB, PCT, SP, "x", SP, PCT, RB>>, <<LB, LB, SP, "x", SP, RB, RB>> }
RawTexts == TextsOf(RawPieces, MaxRaw)

\* the contexts a caller passes (context=None is the empty mapping)
Contexts ==
    { <<>>,
      << [key |-> SiteName, value |-> <<"Acme">>], [key |-> Present, value |-> <<"v">>] >> }

\* a file system: a function from the paths that exist to their text
File(path, text) == [q \in {path} |-> text]
Merge(f, g) == [q \in DOMAIN f \cup DOMAIN g |-> IF q \in DOMAIN f THEN f[q] ELSE g[q]]
NoFiles == [q \in {} |-> <<>>]

OptionalFile(path, texts) == {NoFiles} \cup {File(path, x) : x \in texts}

\* Provider states: the top-level template is missing; or it is a flat template
\* (no base on disk); or it is a child, with or without its base on disk.  An
\* unreferenced file is never read, so none is enumerated.
FileSystems ==
    OptionalFile(IncPath, {IncText})
    \cup {Merge(File(TopPath, x), i) :
             x \in FlatTexts, i \in OptionalFile(IncPath, {IncText})}
    \cup {Merge(File(TopPath, c), b) :
             c \in ChildTexts, b \in OptionalFile(BasePath, BaseTexts)}

\* ------------------------------------------------------------------ state
VARIABLES
    files,          \* the provider: the theme directory on disk
    pc,             \* the position of the render call
    template_path,  \* argument of render_template
    context,        \* argument of render_template
    content,        \* local: the working text
    blocks,         \* local: the Block Map
    staged,         \* the value content held on leaving each stage
    result,         \* what the call returned
    fetched,        \* the read_text calls of this render, in order: path and role
    peer,           \* the frame of a second render call while the other one runs
    response        \* what do_GET wrote for the last request

vars == <<files, pc, template_path, context, content, blocks, staged, result,
          fetched, peer, response>>

NoStages == [read |-> <<>>, inherit |-> <<>>, include |-> <<>>, vars |-> <<>>,
             default |-> <<>>, strip |-> <<>>]
NoResult == [kind |-> "pending", text |-> <<>>]
None == [kind |-> "None", text |-> <<>>]
Text(s) == [kind |-> "text", text |-> s]
\* read_text() of a path that is a directory raises IsADirectoryError
Raised == [kind |-> "raised", text |-> <<"IsADirectoryError">>]
\* read_text() of a path that is not on disk raises FileNotFoundError
NotFound == [kind |-> "raised", text |-> <<"FileNotFoundError">>]

Fetch(path, role) == [path |-> path, role |-> role]

\* the locals of one call of render_template, and what it returned
Frame(id, pc_, template_path_, context_, content_, blocks_, staged_, result_, fetched_) ==
    [id |-> id, pc |-> pc_, template_path |-> template_path_, context |-> context_,
     content |-> content_, blocks |-> blocks_, staged |-> staged_, result |-> result_,
     fetched |-> fetched_]

\* the frame of a call that has not been made
IdleFrame(id) == Frame(id, "idle", <<>>, <<>>, <<>>, <<>>, NoStages, NoResult, <<>>)

\* no second call
NoPeer == IdleFrame(0)

NoResponse == [via |-> "none", path |-> <<>>, status |-> 0, body |-> <<>>]

Init ==
    /\ files \in FileSystems
    /\ pc = "idle"
    /\ template_path = <<>>
    /\ context = <<>>
    /\ content = <<>>
    /\ blocks = <<>>
    /\ staged = NoStages
    /\ result = NoResult
    /\ fetched = <<>>
    /\ peer = NoPeer
    /\ response = NoResponse

\* ------------------------------------------------------------------ render_template
\* the call: render_template(template_path, context)
Call(p, c) ==
    /\ pc = "idle"
    /\ template_path' = p
    /\ context' = c
    /\ pc' = "exists"
    /\ UNCHANGED <<files, content, blocks, staged, result, fetched, peer, response>>

\* if not template_path.exists(): return None
CheckExists ==
    /\ pc = "exists"
    /\ IF Exists(files, template_path)
       THEN pc' = "read" /\ result' = result
       ELSE pc' = "done" /\ result' = None
    /\ UNCHANGED <<files, template_path, context, content, blocks, staged, fetched,
                   peer, response>>

\* ReadTemplate taking the text an earlier call of the same path had read
ReadTemplate_Cached ==
    /\ pc = "read"
    /\ content' = IF peer.pc = "done" /\ peer.template_path = template_path
                     /\ peer.result.kind = "text"
                  THEN peer.staged.read
                  ELSE files[template_path]
    /\ staged' = [staged EXCEPT !.read = content']
    /\ fetched' = Append(fetched, Fetch(template_path, "template"))
    /\ pc' = "extends"
    /\ UNCHANGED <<files, template_path, context, blocks, result, peer, response>>

\* content = template_path.read_text()
ReadTemplate ==
    /\ pc = "read"
    /\ IF IsFile(files, template_path)
       THEN /\ content' = files[template_path]
            /\ staged' = [staged EXCEPT !.read = content']
            /\ fetched' = Append(fetched, Fetch(template_path, "template"))
            /\ pc' = "extends"
            /\ result' = result
       ELSE /\ result' = IF IsDirectory(files, template_path) THEN Raised ELSE NotFound
            /\ pc' = "done"
            /\ UNCHANGED <<content, staged, fetched>>
    /\ UNCHANGED <<files, template_path, context, blocks, peer, response>>

\* the base the first extends directive of s names; <<>> when s has none
ExtendsMatch(s) ==
    LET i == NextMatchPos("extends", s, 1) IN
    IF i = 0 THEN NoMatch ELSE MatchAt("extends", s, i)

\* HandleExtends failing the render when the base is missing
HandleExtends_Strict ==
    /\ pc = "extends"
    /\ LET extends_match == ExtendsMatch(content) IN
       LET base_path == THEME_DIR \o extends_match.g1 IN
       IF extends_match.end # 0 /\ base_path \notin DOMAIN files
       THEN /\ result' = None
            /\ pc' = "done"
            /\ UNCHANGED <<blocks, content, staged>>
       ELSE /\ IF extends_match.end # 0
               THEN /\ blocks' = ExtractBlocks(content)
                    /\ content' = SubstituteBlocks(files[base_path], blocks')
               ELSE UNCHANGED <<blocks, content>>
            /\ staged' = [staged EXCEPT !.inherit = content']
            /\ pc' = "include"
            /\ result' = result
    /\ UNCHANGED <<files, template_path, context, fetched, peer, response>>

\* HandleExtends substituting into an empty base when the base is missing
HandleExtends_NoBaseCheck ==
    /\ pc = "extends"
    /\ LET extends_match == ExtendsMatch(content) IN
       LET base_path == THEME_DIR \o extends_match.g1 IN
       IF extends_match.end # 0
       THEN /\ blocks' = ExtractBlocks(content)
            /\ content' = SubstituteBlocks(
                   IF base_path \in DOMAIN files THEN files[base_path] ELSE <<>>, blocks')
       ELSE UNCHANGED <<blocks, content>>
    /\ staged' = [staged EXCEPT !.inherit = content']
    /\ pc' = "include"
    /\ UNCHANGED <<files, template_path, context, result, fetched, peer, response>>

\* HandleExtends following the extends directive of the base it has loaded
HandleExtends_Chain ==
    /\ pc = "extends"
    /\ LET extends_match == ExtendsMatch(content) IN
       LET base_path == THEME_DIR \o extends_match.g1 IN
       IF extends_match.end # 0 /\ IsFile(files, base_path)
       THEN LET blocks1 == ExtractBlocks(content)
                content1 == SubstituteBlocks(files[base_path], blocks1)
                up == ExtendsMatch(files[base_path])
                up_path == THEME_DIR \o up.g1
            IN  IF up.end # 0 /\ IsFile(files, up_path)
                THEN /\ blocks' = ExtractBlocks(content1)
                     /\ content' = SubstituteBlocks(files[up_path], blocks')
                     /\ fetched' = fetched \o <<Fetch(base_path, "base"), Fetch(up_path, "base")>>
                ELSE /\ blocks' = blocks1
                     /\ content' = content1
                     /\ fetched' = Append(fetched, Fetch(base_path, "base"))
       ELSE UNCHANGED <<blocks, content, fetched>>
    /\ staged' = [staged EXCEPT !.inherit = content']
    /\ pc' = "include"
    /\ UNCHANGED <<files, template_path, context, result, peer, response>>

\* "Handle extends": with an extends directive and its base on disk, the blocks
\* of the child are extracted and substituted into the base
HandleExtends ==
    /\ pc = "extends"
    /\ LET extends_match == ExtendsMatch(content) IN
       LET base_path == THEME_DIR \o extends_match.g1 IN
       IF extends_match.end # 0 /\ Exists(files, base_path)
       THEN IF IsFile(files, base_path)
            THEN /\ blocks' = ExtractBlocks(content)
                 /\ content' = SubstituteBlocks(files[base_path], blocks')
                 /\ fetched' = Append(fetched, Fetch(base_path, "base"))
                 /\ staged' = [staged EXCEPT !.inherit = content']
                 /\ pc' = "include"
                 /\ result' = result
            ELSE /\ result' = Raised
                 /\ pc' = "done"
                 /\ UNCHANGED <<blocks, content, fetched, staged>>
       ELSE /\ staged' = [staged EXCEPT !.inherit = content]
            /\ pc' = "include"
            /\ UNCHANGED <<blocks, content, fetched, result>>
    /\ UNCHANGED <<files, template_path, context, peer, response>>

\* include_path of replace_include, for each match in order
TargetsOf(ms) == [k \in 1..Len(ms) |-> THEME_DIR \o ms[k].g1]

\* the paths replace_include is called with, in order
IncludeTargets(s) == TargetsOf(FindIter("include", s, 1))

\* the first target that exists and is not a file (its read_text() raises), or 0
FirstDirectory(fs, ts) == FirstIdx({k \in 1..Len(ts) : IsDirectory(fs, ts[k])})

IncludeRaises(s, fs) == FirstDirectory(fs, IncludeTargets(s)) # 0

\* the targets read before the one at position r (all of them when r = 0)
FetchesBefore(fs, ts, r) ==
    LET read == SelectSeq(SubSeq(ts, 1, IF r = 0 THEN Len(ts) ELSE r - 1),
                          LAMBDA t : IsFile(fs, t))
    IN  [k \in 1..Len(read) |-> Fetch(read[k], "include")]

FetchesOf(fs, ts) == FetchesBefore(fs, ts, FirstDirectory(fs, ts))

\* the read_text calls of the include stage, one for each directive whose target
\* is a file, in order, up to the first target whose read raises
IncludeFetches(s, fs) == FetchesOf(fs, IncludeTargets(s))

\* HandleIncludes handing its output over to the default stage
HandleIncludes_SkipVars ==
    /\ pc = "include"
    /\ content' = ResolveIncludes(content, files)
    /\ staged' = [staged EXCEPT !.include = content', !.vars = content']
    /\ fetched' = fetched \o IncludeFetches(content, files)
    /\ pc' = "default"
    /\ UNCHANGED <<files, template_path, context, blocks, result, peer, response>>

\* HandleIncludes taking up again the directives of the text it has inlined, a
\* few times over
HandleIncludes_Again ==
    /\ pc = "include"
    /\ content' = ResolveIncludes(content, files)
    /\ staged' = [staged EXCEPT !.include = content']
    /\ fetched' = fetched \o IncludeFetches(content, files)
    /\ pc' = IF IncludeFetches(content', files) # <<>> /\ Len(fetched') <= 4
             THEN "include"
             ELSE "vars"
    /\ UNCHANGED <<files, template_path, context, blocks, result, peer, response>>

\* "Handle includes"
HandleIncludes ==
    /\ pc = "include"
    /\ IF IncludeRaises(content, files)
       THEN /\ result' = Raised
            /\ pc' = "done"
            /\ UNCHANGED <<content, staged>>
       ELSE /\ content' = ResolveIncludes(content, files)
            /\ staged' = [staged EXCEPT !.include = content']
            /\ pc' = "vars"
            /\ result' = result
    /\ fetched' = fetched \o IncludeFetches(content, files)
    /\ UNCHANGED <<files, template_path, context, blocks, peer, response>>

\* "Replace simple variables" storing the site data in the caller's mapping
ReplaceVariables_Binds ==
    /\ pc = "vars"
    /\ content' = ReplaceVars(SubstitutionData(context), content)
    /\ staged' = [staged EXCEPT !.vars = content']
    /\ context' = context \o SubstitutionData(context)
    /\ pc' = "default"
    /\ UNCHANGED <<files, template_path, blocks, result, fetched, peer, response>>

\* "Replace simple variables"
ReplaceVariables ==
    /\ pc = "vars"
    /\ content' = ReplaceVars(SubstitutionData(context), content)
    /\ staged' = [staged EXCEPT !.vars = content']
    /\ pc' = "default"
    /\ UNCHANGED <<files, template_path, context, blocks, result, fetched, peer, response>>

\* "Handle default values"
HandleDefaults ==
    /\ pc = "default"
    /\ content' = CollapseDefaults(content)
    /\ staged' = [staged EXCEPT !.default = content']
    /\ pc' = "strip"
    /\ UNCHANGED <<files, template_path, context, blocks, result, fetched, peer, response>>

\* "Remove remaining template tags"
RemoveTags ==
    /\ pc = "strip"
    /\ content' = Strip(content)
    /\ staged' = [staged EXCEPT !.strip = content']
    /\ pc' = "return"
    /\ UNCHANGED <<files, template_path, context, blocks, result, fetched, peer, response>>

\* return content
Return ==
    /\ pc = "return"
    /\ result' = Text(content)
    /\ pc' = "done"
    /\ UNCHANGED <<files, template_path, context, content, blocks, staged, fetched,
                   peer, response>>

Next ==
    \/ \E p \in {TopPath}, c \in Contexts : Call(p, c)
    \/ CheckExists
    \/ ReadTemplate
    \/ HandleExtends
    \/ HandleIncludes
    \/ ReplaceVariables
    \/ HandleDefaults
    \/ RemoveTags
    \/ Return

Spec == Init /\ [][Next]_vars

\* ------------------------------------------------------------------ the stripper alone
\* The Tag Stripper as a function of an arbitrary working text: the stage is
\* entered with any text over the delimiters, and then run on its own output.
InitStrip ==
    /\ files = NoFiles
    /\ pc = "strip"
    /\ template_path = TopPath
    /\ context = <<>>
    /\ content \in RawTexts
    /\ blocks = <<>>
    /\ staged = NoStages
    /\ result = NoResult
    /\ fetched = <<>>
    /\ peer = NoPeer
    /\ response = NoResponse

Restrip ==
    /\ pc = "return"
    /\ content' = Strip(content)
    /\ pc' = "restripped"
    /\ UNCHANGED <<files, template_path, context, blocks, staged, result, fetched,
                   peer, response>>

NextStrip == RemoveTags \/ Restrip

SpecStrip == InitStrip /\ [][NextStrip]_vars

\* ------------------------------------------------------------------ the call as a function
\* the Inheritance Resolver (lines 39-58) as a function of the provider
Inherit(fs, child) ==
    LET extends_match == ExtendsMatch(child) IN
    LET base_path == THEME_DIR \o extends_match.g1 IN
    IF extends_match.end # 0 /\ IsFile(fs, base_path)
    THEN SubstituteBlocks(fs[base_path], ExtractBlocks(child))
    ELSE child

\* a base that exists and is not a file: its read_text() raises
BaseRaises(fs, child) ==
    LET extends_match == ExtendsMatch(child) IN
    extends_match.end # 0 /\ IsDirectory(fs, THEME_DIR \o extends_match.g1)

\* what render_template(template_path, context) returns with the provider at fs
render_template(fs, template_path_, context_) ==
    IF ~Exists(fs, template_path_) THEN None
    ELSE IF ~IsFile(fs, template_path_) THEN Raised
    ELSE IF BaseRaises(fs, fs[template_path_]) THEN Raised
    ELSE LET inherited == Inherit(fs, fs[template_path_]) IN
         IF IncludeRaises(inherited, fs) THEN Raised
         ELSE Text(Strip(CollapseDefaults(
                  ReplaceVars(SubstitutionData(context_), ResolveIncludes(inherited, fs)))))

\* ------------------------------------------------------------------ composed templates
\* Templates that combine inheritance, inclusion and placeholders: the number of
\* pieces after a child's extends directive, and the number of pieces of a base.
MaxChildParts == 1
MaxBaseParts == 2

NamedEndBlock(name) == <<LB, PCT, SP, "endblock", SP>> \o name \o <<SP, PCT, RB>>
NamedBlockDecl(name, body) == BlockOpen(name) \o body \o NamedEndBlock(name)

RootRef == <<"root">>
RootPath == THEME_DIR \o RootRef
\* the templates directory, named as if it were a template
DirRef == <<"templates">>
DirPath == THEME_DIR \o DirRef

ComposeChildPieces ==
    { BlockDecl(BlockA, <<"1">>),
      NamedBlockDecl(BlockA, <<"1">>),
      BlockDecl(BlockA, Directive("include", IncRef)),
      Directive("extends", RootRef) }

ComposeBasePieces ==
    { <<"x">>,
      BlockDecl(BlockA, <<"d">>),
      NamedBlockDecl(BlockA, <<"d">>),
      Directive("include", IncRef),
      Directive("extends", RootRef) }

ComposeFlatPieces ==
    { <<"x">>,
      Directive("include", IncRef),
      Directive("include", DirRef),
      Directive("extends", DirRef) }

\* an included file that itself holds a placeholder and every kind of directive
ComposeIncText ==
    <<"y">> \o Placeholder(<<SP>>, SiteName) \o Directive("include", IncRef)
        \o Directive("extends", BaseRef) \o BlockDecl(BlockA, <<"z">>)

\* the template an extends directive of a base names
RootText == <<"r">> \o BlockDecl(BlockA, <<"q">>)

\* the base and the child of the end-to-end scenario; the markup around the
\* directives is one token each, none of them a word character
ScenarioBase ==
    <<"<h1>">> \o BlockDecl(<<"title">>, <<"Default">>) \o <<"</h1>">>
        \o <<"<p>">> \o BlockDecl(<<"body">>, <<>>) \o <<"</p>">>
ScenarioChild ==
    <<LB, PCT, SP, "extends", SP, QUOTE, "base", QUOTE, SP, PCT, RB>>
        \o BlockDecl(<<"title">>, <<"Hello">>)

\* the include target and the base's own base are on disk in every state
SharedFiles == Merge(File(IncPath, ComposeIncText), File(RootPath, RootText))

ComposeFileSystems ==
    {Merge(File(TopPath, ScenarioChild), File(BasePath, ScenarioBase))}
    \cup {Merge(File(TopPath, Directive("extends", BaseRef) \o c),
                Merge(File(BasePath, b), SharedFiles)) :
             c \in TextsOf(ComposeChildPieces, MaxChildParts),
             b \in TextsOf(ComposeBasePieces, MaxBaseParts)}
    \cup {Merge(File(TopPath, x), SharedFiles) : x \in TextsOf(ComposeFlatPieces, MaxBaseParts)}

InitCompose ==
    /\ files \in ComposeFileSystems
    /\ pc = "idle"
    /\ template_path = <<>>
    /\ context = <<>>
    /\ content = <<>>
    /\ blocks = <<>>
    /\ staged = NoStages
    /\ result = NoResult
    /\ fetched = <<>>
    /\ peer = NoPeer
    /\ response = NoResponse

\* the caller names the template, or the directory the templates are in
NextCompose ==
    \/ \E p \in {TopPath, DirPath}, c \in Contexts : Call(p, c)
    \/ CheckExists
    \/ ReadTemplate
    \/ HandleExtends
    \/ HandleIncludes
    \/ ReplaceVariables
    \/ HandleDefaults
    \/ RemoveTags
    \/ Return

SpecCompose == InitCompose /\ [][NextCompose]_vars

\* ------------------------------------------------------------------ renders in sequence
\* The theme is edited between two calls: a file is written or removed while no
\* render runs, and the next request calls render_template again.
EditTops ==
    { <<"x">>,
      <<"x">> \o Directive("include", IncRef),
      Directive("extends", BaseRef) \o BlockDecl(BlockA, <<"1">>) }
EditBases == { <<"x">> \o BlockDecl(BlockA, <<"d">>), <<"y">> \o BlockDecl(BlockA, <<"d">>) }
EditIncs == { <<"y">>, <<"z">> }

EditFileSystems ==
    {Merge(t, Merge(b, i)) : t \in OptionalFile(TopPath, EditTops),
                             b \in OptionalFile(BasePath, EditBases),
                             i \in OptionalFile(IncPath, EditIncs)}

InitEdit ==
    /\ files \in EditFileSystems
    /\ pc = "idle"
    /\ template_path = <<>>
    /\ context = <<>>
    /\ content = <<>>
    /\ blocks = <<>>
    /\ staged = NoStages
    /\ result = NoResult
    /\ fetched = <<>>
    /\ peer = NoPeer
    /\ response = NoResponse

\* a file of the theme is written
Edit(path, text) ==
    /\ pc = "idle"
    /\ files' = Merge(File(path, text), files)
    /\ UNCHANGED <<pc, template_path, context, content, blocks, staged, result, fetched,
                   peer, response>>

\* a file of the theme is removed
Remove(path) ==
    /\ pc = "idle"
    /\ path \in DOMAIN files
    /\ files' = [q \in DOMAIN files \ {path} |-> files[q]]
    /\ UNCHANGED <<pc, template_path, context, content, blocks, staged, result, fetched,
                   peer, response>>

\* the call has returned and its frame is gone; the next call starts with new
\* locals.  peer keeps what the finished call had read and returned.
Again ==
    /\ pc = "done"
    /\ peer' = Frame(1, pc, template_path, context, content, blocks, staged, result, fetched)
    /\ pc' = "idle"
    /\ template_path' = <<>>
    /\ context' = <<>>
    /\ content' = <<>>
    /\ blocks' = <<>>
    /\ staged' = NoStages
    /\ result' = NoResult
    /\ fetched' = <<>>
    /\ UNCHANGED <<files, response>>

NextEdit ==
    \/ \E p \in {TopPath}, c \in {<<>>} : Call(p, c)
    \/ CheckExists
    \/ ReadTemplate
    \/ HandleExtends
    \/ HandleIncludes
    \/ ReplaceVariables
    \/ HandleDefaults
    \/ RemoveTags
    \/ Return
    \/ Again
    \/ \E text \in EditTops : Edit(TopPath, text)
    \/ \E text \in EditBases : Edit(BasePath, text)
    \/ \E text \in EditIncs : Edit(IncPath, text)
    \/ \E path \in {TopPath, BasePath, IncPath} : Remove(path)

SpecEdit == InitEdit /\ [][NextEdit]_vars

\* ------------------------------------------------------------------ two renders at once
\* Two calls of render_template are in progress, the provider fixed.  The
\* variables hold the frame of the call that is running, peer the frame of the
\* call that is suspended; a switch may come between any two steps.
InitConcurrent ==
    /\ files \in EditFileSystems
    /\ pc = "idle"
    /\ template_path = <<>>
    /\ context = <<>>
    /\ content = <<>>
    /\ blocks = <<>>
    /\ staged = NoStages
    /\ result = NoResult
    /\ fetched = <<>>
    /\ peer = IdleFrame(2)
    /\ response = NoResponse

\* a switch with the working text held in one place for both calls
Switch_SharedContent ==
    /\ peer.id # 0
    /\ peer' = Frame(3 - peer.id, pc, template_path, context, content, blocks, staged,
                     result, fetched)
    /\ pc' = peer.pc
    /\ template_path' = peer.template_path
    /\ context' = peer.context
    /\ content' = content
    /\ blocks' = peer.blocks
    /\ staged' = peer.staged
    /\ result' = peer.result
    /\ fetched' = peer.fetched
    /\ UNCHANGED <<files, response>>

\* the running call is suspended and the other one resumed: each call has its
\* own template_path, context, content, blocks and the closures over them
Switch ==
    /\ peer.id # 0
    /\ peer' = Frame(3 - peer.id, pc, template_path, context, content, blocks, staged,
                     result, fetched)
    /\ pc' = peer.pc
    /\ template_path' = peer.template_path
    /\ context' = peer.context
    /\ content' = peer.content
    /\ blocks' = peer.blocks
    /\ staged' = peer.staged
    /\ result' = peer.result
    /\ fetched' = peer.fetched
    /\ UNCHANGED <<files, response>>

\* each call renders the template, or the base as a template of its own
NextConcurrent ==
    \/ \E p \in {TopPath, BasePath}, c \in {<<>>} : Call(p, c)
    \/ CheckExists
    \/ ReadTemplate
    \/ HandleExtends
    \/ HandleIncludes
    \/ ReplaceVariables
    \/ HandleDefaults
    \/ RemoveTags
    \/ Return
    \/ Switch

SpecConcurrent == InitConcurrent /\ [][NextConcurrent]_vars

\* ------------------------------------------------------------------ ThemeHandler.do_GET
\* A request path is a token sequence: "/", "?", and path segments.
\* path_map, restricted to the routes the requests below name
path_map ==
    [q \in {<<SLASH>>, <<SLASH, "features">>} |->
        IF q = <<SLASH>> THEN <<"front-page.html">> ELSE <<"features.html">>]

\* self.path.split('?')[0]
SplitQuery(path) ==
    Sub(path, 1, IF \E i \in 1..Len(path) : path[i] = QUERY
                 THEN FirstIdx({i \in 1..Len(path) : path[i] = QUERY}) - 1
                 ELSE Len(path))

\* .rstrip('/')
RECURSIVE RStripSlash(_)
RStripSlash(s) ==
    IF s # <<>> /\ s[Len(s)] = SLASH THEN RStripSlash(Sub(s, 1, Len(s) - 1)) ELSE s

\* clean_path, with "if not clean_path: clean_path = '/'"
CleanPath(path) ==
    IF RStripSlash(SplitQuery(path)) = <<>> THEN <<SLASH>> ELSE RStripSlash(SplitQuery(path))

\* if content:  (None and the empty string are false)
Truthy(r) == r.kind = "text" /\ r.text # <<>>

\* the prefix of the asset requests
AssetsPrefix == <<SLASH, "themes", SLASH, "rustpress-enterprise", SLASH, "assets", SLASH>>

\* the path handed to the file server (lines 132-134)
StaticPath(path) ==
    IF OccursAt(path, AssetsPrefix, 1)
    THEN <<SLASH>>
             \o StrReplace(path, <<SLASH, "themes", SLASH, "rustpress-enterprise", SLASH>>,
                           <<>>, 1)
    ELSE path

\* bodies the file server writes itself
LISTING == <<"<directory listing>">>
ERROR_PAGE == <<"<error response>">>

\* super().do_GET() with directory=THEME_DIR: a file is sent as it is, a
\* directory is listed (after a redirect to its name with "/"), anything else
\* is not found.  target is the path without query, leading and trailing "/".
StaticResponse(fs, path, target, slash) ==
    IF IsFile(fs, THEME_DIR \o target) /\ ~slash
    THEN [via |-> "static", path |-> path, status |-> 200, body |-> fs[THEME_DIR \o target]]
    ELSE IF target = <<>> \/ IsDirectory(fs, THEME_DIR \o target)
    THEN IF slash
         THEN [via |-> "static", path |-> path, status |-> 200, body |-> LISTING]
         ELSE [via |-> "static", path |-> path, status |-> 301, body |-> <<>>]
    ELSE [via |-> "static", path |-> path, status |-> 404, body |-> ERROR_PAGE]

\* the path below the served directory: without its leading "/"
Relative(s) == IF s = <<>> THEN <<>> ELSE Tail(s)

StaticServe(fs, path, served) ==
    StaticResponse(fs, path, Relative(RStripSlash(SplitQuery(served))),
                   SplitQuery(served) # <<>> /\ SplitQuery(served)[Len(SplitQuery(served))] = SLASH)

\* lines 121-129: the response written from the rendered document
RenderedResponse(path, content_) ==
    [via |-> "render", path |-> path, status |-> 200, body |-> content_.text]

\* do_GET up to the call (lines 91-123): a template route calls
\* render_template(template_file); any other path goes to the file server
do_GET(path) ==
    /\ pc = "idle"
    /\ response.via # "pending"
    /\ IF CleanPath(path) \in DOMAIN path_map
       THEN /\ template_path' = TEMPLATES_DIR \o path_map[CleanPath(path)]
            /\ context' = <<>>
            /\ pc' = "exists"
            /\ response' = [via |-> "pending", path |-> path, status |-> 0, body |-> <<>>]
       ELSE /\ response' = StaticServe(files, path, StaticPath(path))
            /\ UNCHANGED <<pc, template_path, context>>
    /\ UNCHANGED <<files, content, blocks, staged, result, fetched, peer>>

\* do_GET after the call has returned (lines 124-137): "if content:" writes the
\* document, otherwise the request falls through to the file server; an
\* exception of the call leaves do_GET and nothing is written
do_GET_write ==
    /\ pc = "done"
    /\ response.via = "pending"
    /\ response' =
           IF result.kind = "raised"
           THEN [via |-> "error", path |-> response.path, status |-> 0, body |-> <<>>]
           ELSE IF Truthy(result) THEN RenderedResponse(response.path, result)
           ELSE StaticServe(files, response.path, StaticPath(response.path))
    /\ pc' = "idle"
    /\ template_path' = <<>>
    /\ context' = <<>>
    /\ content' = <<>>
    /\ blocks' = <<>>
    /\ staged' = NoStages
    /\ result' = NoResult
    /\ fetched' = <<>>
    /\ UNCHANGED <<files, peer>>

\* the texts of the two routed templates
HttpTexts ==
    { <<>>,
      <<"x">>,
      Placeholder(<<SP>>, Present),
      <<"x">> \o SpacedForm(SiteName),
      <<"x">> \o Directive("include", IncRef) }

HttpFileSystems ==
    {Merge(f, Merge(g, Merge(i, File(THEME_DIR \o <<"assets", SLASH, "x">>, <<"d">>)))) :
        f \in OptionalFile(TEMPLATES_DIR \o path_map[<<SLASH>>], HttpTexts),
        g \in OptionalFile(TEMPLATES_DIR \o path_map[<<SLASH, "features">>], HttpTexts),
        i \in OptionalFile(IncPath, {<<"y">>})}

Requests ==
    { <<SLASH>>,
      <<SLASH, QUERY, "x">>,
      <<SLASH, "features">>,
      <<SLASH, "features", SLASH>>,
      <<SLASH, "features", QUERY, "x">>,
      <<SLASH, "other">>,
      <<SLASH, "inc">>,
      <<SLASH, "templates">>,
      AssetsPrefix \o <<"x">> }

InitHTTP ==
    /\ files \in HttpFileSystems
    /\ pc = "idle"
    /\ template_path = <<>>
    /\ context = <<>>
    /\ content = <<>>
    /\ blocks = <<>>
    /\ staged = NoStages
    /\ result = NoResult
    /\ fetched = <<>>
    /\ peer = NoPeer
    /\ response = NoResponse

NextHTTP ==
    \/ \E path \in Requests : do_GET(path)
    \/ CheckExists
    \/ ReadTemplate
    \/ HandleExtends
    \/ HandleIncludes
    \/ ReplaceVariables
    \/ HandleDefaults
    \/ RemoveTags
    \/ Return
    \/ do_GET_write

SpecHTTP == InitHTTP /\ [][NextHTTP]_vars

\* ------------------------------------------------------------------ templates that name each other
\* The template, the base and the include target name themselves and each
\* other: a template that includes itself, two files that include each other, a
\* child that extends itself, a base that extends its child.
CycleFileSystems ==
    {Merge(t, Merge(b, i)) :
        t \in OptionalFile(TopPath,
                 { <<"x">> \o Directive("include", TopPath),
                   <<"x">> \o Directive("include", IncRef) \o Directive("include", TopPath),
                   Directive("extends", TopPath) \o BlockDecl(BlockA, <<"1">>),
                   Directive("extends", BaseRef) \o BlockDecl(BlockA, <<"1">>)
                       \o Directive("include", BaseRef) }),
        b \in OptionalFile(BasePath,
                 { Directive("extends", TopPath) \o <<"x">> \o BlockDecl(BlockA, <<"d">>),
                   <<"x">> \o Directive("include", BaseRef) \o BlockDecl(BlockA, <<"d">>)
                       \o Directive("include", IncRef) }),
        i \in OptionalFile(IncPath,
                 { <<"y">> \o Directive("include", IncRef),
                   <<"y">> \o Directive("include", TopPath),
                   <<"y">> \o Directive("include", IncRef) \o Directive("extends", BaseRef) })}

InitCycle ==
    /\ files \in CycleFileSystems
    /\ pc = "idle"
    /\ template_path = <<>>
    /\ context = <<>>
    /\ content = <<>>
    /\ blocks = <<>>
    /\ staged = NoStages
    /\ result = NoResult
    /\ fetched = <<>>
    /\ peer = NoPeer
    /\ response = NoResponse

\* any of the three files is rendered as the top-level template
NextCycle ==
    \/ \E p \in {TopPath, BasePath, IncPath}, c \in {<<>>} : Call(p, c)
    \/ CheckExists
    \/ ReadTemplate
    \/ HandleExtends
    \/ HandleIncludes
    \/ ReplaceVariables
    \/ HandleDefaults
    \/ RemoveTags
    \/ Return

\* the positions inside a call of render_template
Running == {"exists", "read", "extends", "include", "vars", "default", "strip", "return"}

\* control leaves the statement it is at
Advance == pc \in Running /\ pc' \in Running \cup {"done"} /\ pc' # pc

\* A call that has started runs on: the interpreter executes the statements of
\* the function one after the other, each of them a finite scan of a finite
\* text, and nothing in the function waits.
SpecCycle == InitCycle /\ [][NextCycle]_vars /\ WF_pc(Advance)

\* ------------------------------------------------------------------ the provider changes under a render
\* Another process writes and removes files of the theme while a call of
\* render_template is in progress.  Between two statements of the call the
\* change is an action of its own; inside the statements that test a path and
\* then read it (lines 42-43, lines 63-64) the removal comes between the two.

\* the provider without the file at path
Without(fs, path) == [q \in DOMAIN fs \ {path} |-> fs[q]]

\* a file of the theme is written while the call runs
Overwrite(path, text) ==
    /\ pc \in Running
    /\ files' = Merge(File(path, text), files)
    /\ UNCHANGED <<pc, template_path, context, content, blocks, staged, result, fetched,
                   peer, response>>

\* a file of the theme is removed while the call runs
Unlink(path) ==
    /\ pc \in Running
    /\ path \in DOMAIN files
    /\ files' = Without(files, path)
    /\ UNCHANGED <<pc, template_path, context, content, blocks, staged, result, fetched,
                   peer, response>>

\* "Handle extends" with the base removed after base_path.exists() (line 42)
\* has found it: base_path.read_text() (line 43) raises
HandleExtendsUnlinked ==
    /\ pc = "extends"
    /\ ExtendsMatch(content).end # 0
    /\ IsFile(files, THEME_DIR \o ExtendsMatch(content).g1)
    /\ files' = Without(files, THEME_DIR \o ExtendsMatch(content).g1)
    /\ result' = NotFound
    /\ pc' = "done"
    /\ UNCHANGED <<template_path, context, content, blocks, staged, fetched, peer, response>>

\* the directives whose target line 63 finds and line 64 comes to read
Reached(fs, ts) == {k \in 1..Len(ts) : IsFile(fs, ts[k]) /\ FirstDirectory(fs, ts) \notin 1..k}

\* the include stage with the target at position k removed between line 63 and
\* line 64: the provider, and the reads, it leaves
UnlinkedAt(fs, ts, k) == [files |-> Without(fs, ts[k]), fetches |-> FetchesBefore(fs, ts, k)]

\* "Handle includes" with the target of one directive removed after
\* include_path.exists() (line 63) has found it: the targets before it have
\* been read, include_path.read_text() (line 64) raises
HandleIncludesUnlinked ==
    /\ pc = "include"
    /\ \E k \in Reached(files, IncludeTargets(content)) :
           /\ files' = UnlinkedAt(files, IncludeTargets(content), k).files
           /\ fetched' = fetched \o UnlinkedAt(files, IncludeTargets(content), k).fetches
    /\ result' = NotFound
    /\ pc' = "done"
    /\ UNCHANGED <<template_path, context, content, blocks, staged, peer, response>>

NextRace ==
    \/ \E p \in {TopPath}, c \in {<<>>} : Call(p, c)
    \/ CheckExists
    \/ ReadTemplate
    \/ HandleExtends
    \/ HandleIncludes
    \/ ReplaceVariables
    \/ HandleDefaults
    \/ RemoveTags
    \/ Return
    \/ \E text \in EditTops : Overwrite(TopPath, text)
    \/ \E text \in EditBases : Overwrite(BasePath, text)
    \/ \E text \in EditIncs : Overwrite(IncPath, text)
    \/ \E path \in {TopPath, BasePath, IncPath} : Unlink(path)
    \/ HandleExtendsUnlinked
    \/ HandleIncludesUnlinked

SpecRace == InitEdit /\ [][NextRace]_vars

\* ------------------------------------------------------------------ block forms, and directories
\* The number of pieces after a child's extends directive.
MaxBlockParts == 3

\* Children whose block directives are not all paired: an open directive with
\* no close, a close directive alone, a multi-line body, text outside any
\* block; the base has a region a and, in one case, a region b.
BlockFileSystems ==
    {Merge(File(TopPath, Directive("extends", BaseRef) \o c), File(BasePath, b)) :
        c \in TextsOf({ BlockOpen(BlockA) \o <<"1">>,
                        BlockDecl(BlockB, <<"3">>),
                        BlockDecl(BlockA, <<"2", NL, "2">>),
                        EndBlock,
                        <<"q">> },
                      MaxBlockParts),
        b \in { <<"x">> \o BlockDecl(BlockA, <<"d">>) \o BlockDecl(BlockB, <<"e">>),
                <<"x">> \o BlockDecl(BlockA, <<"d">>) }}

\* Files of one name in THEME_DIR and in TEMPLATES_DIR, beside the top-level
\* template: "inc" and "base" in both directories, with different texts.
RootFileSystems ==
    {Merge(File(TopPath, t),
           Merge(File(BasePath, <<"x">> \o BlockDecl(BlockA, <<"d">>)
                                    \o Directive("include", IncRef)),
                 Merge(File(TEMPLATES_DIR \o BaseRef,
                            <<"r">> \o BlockDecl(BlockA, <<"d">>)
                                \o Directive("include", IncRef)),
                       Merge(i, j)))) :
        t \in { <<"x">> \o Directive("include", IncRef),
                Directive("extends", BaseRef)
                    \o BlockDecl(BlockA, Directive("include", IncRef)),
                Directive("extends", TEMPLATES_DIR \o BaseRef)
                    \o BlockDecl(BlockA, <<"1">>) },
        i \in OptionalFile(IncPath, {<<"y">>}),
        j \in OptionalFile(TEMPLATES_DIR \o IncRef, {<<"z">>})}

InitBlocks ==
    /\ files \in BlockFileSystems \cup RootFileSystems
    /\ pc = "idle"
    /\ template_path = <<>>
    /\ context = <<>>
    /\ content = <<>>
    /\ blocks = <<>>
    /\ staged = NoStages
    /\ result = NoResult
    /\ fetched = <<>>
    /\ peer = NoPeer
    /\ response = NoResponse

SpecBlocks == InitBlocks /\ [][Next]_vars

\* ------------------------------------------------------------------ default placeholders, two servers
\* The number of pieces of a template of default-qualified placeholders.
MaxDefaultParts == 2

\* Templates of default-qualified placeholders: a plain identifier the caller
\* may bind, one nobody binds, a dotted key of SITE_DATA, a dotted key of
\* nothing.
DefaultFileSystems ==
    {File(TopPath, t) :
        t \in TextsOf({ <<"x">>,
                        DefaultPlaceholder(Present, Literal),
                        DefaultPlaceholder(<<"missing">>, <<"Default">>),
                        DefaultPlaceholder(SiteName, <<"Hello">>),
                        DefaultPlaceholder(<<"site", DOT, "title">>, <<"Hello">>) },
                      MaxDefaultParts)}

\* what the identifiers are bound to: nothing, a value, the empty string
DefaultContexts ==
    { <<>>,
      << [key |-> Present, value |-> <<"v">>] >>,
      << [key |-> Present, value |-> <<>>] >>,
      << [key |-> Present, value |-> <<"v">>], [key |-> SiteName, value |-> <<"CMS">>] >> }

InitDefault ==
    /\ files \in DefaultFileSystems
    /\ pc = "idle"
    /\ template_path = <<>>
    /\ context = <<>>
    /\ content = <<>>
    /\ blocks = <<>>
    /\ staged = NoStages
    /\ result = NoResult
    /\ fetched = <<>>
    /\ peer = NoPeer
    /\ response = NoResponse

\* theme-server.py, serve_template: the same template rendered by the Jinja2
\* environment with the same bindings as keyword arguments; every expression
\* statement goes through the filter registered as 'default'
serve_template ==
    /\ pc = "done"
    /\ result.kind = "text"
    /\ response = NoResponse
    /\ response' = [via |-> "jinja", path |-> template_path, status |-> 200,
                    body |-> JinjaRender(context, staged.read, 1)]
    /\ UNCHANGED <<files, pc, template_path, context, content, blocks, staged, result,
                   fetched, peer>>

NextDefault ==
    \/ \E p \in {TopPath}, c \in DefaultContexts : Call(p, c)
    \/ CheckExists
    \/ ReadTemplate
    \/ HandleExtends
    \/ HandleIncludes
    \/ ReplaceVariables
    \/ HandleDefaults
    \/ RemoveTags
    \/ Return
    \/ serve_template

SpecDefault == InitDefault /\ [][NextDefault]_vars

\* ------------------------------------------------------------------ notions the claims use
\* the reads of this render, without their order and number
Fetched == {fetched[k] : k \in 1..Len(fetched)}

\* the number of places where t occurs in s
Count(s, t) == Cardinality({i \in 1..Len(s) : OccursAt(s, t, i)})

Delimiters == {<<LB, PCT>>, <<PCT, RB>>, <<LB, LB>>, <<RB, RB>>}

\* the render has passed the stage that leaves the program at the given pc
Rendered == pc = "done" /\ result.kind = "text"

\* the child read by this render names a base, and the base is on disk
DeclaresBase == ExtendsMatch(staged.read).end # 0
BaseOf(child) == THEME_DIR \o ExtendsMatch(child).g1
InheritanceApplied == DeclaresBase /\ BaseOf(staged.read) \in DOMAIN files
PastExtends == pc \in {"include", "vars", "default", "strip", "return"} \/ Rendered

\* A block region as the template syntax defines it: open directive, body up to
\* the first close directive, close directive; the body may span lines.
\* Each region of base replaced by the body the map holds for its name, or erased.
RECURSIVE OverwriteOrErase(_, _, _)
OverwriteOrErase(base, map, pos) ==
    LET i == FirstIdx({j \in pos..Len(base) : BlockAt(base, j, TRUE).end # 0}) IN
    IF i = 0 THEN Sub(base, pos, Len(base))
    ELSE LET m == BlockAt(base, i, TRUE) IN
         Sub(base, pos, i - 1)
             \o (IF m.g1 \in DOMAIN map THEN map[m.g1] ELSE <<>>)
             \o OverwriteOrErase(base, map, m.end + 1)

\* the bodies of the block regions of s, whatever their names
RegionBodies(s) == {FindIter("block_dotall", s, 1)[k].g2 :
                       k \in 1..Len(FindIter("block_dotall", s, 1))}

\* ------------------------------------------------------------------ C1
\* C1 (no leakage): the text render_template returns contains no directive
\* delimiter and no placeholder delimiter, whatever the template text was.
C1_NoLeakage ==
    Rendered => \A d \in Delimiters : ~Contains(result.text, d)

\* ------------------------------------------------------------------ C2
\* C2 (idempotent stripping): the Tag Stripper applied to its own output
\* returns it unchanged: Strip(Strip(t)) = Strip(t) for every text t.
C2_IdempotentStripping ==
    pc = "restripped" => content = staged.strip

\* ------------------------------------------------------------------ C3
\* C3 (block overwrite-or-erase): when a child extends a base that is on disk,
\* every block region of the base is replaced by the child's body for that name,
\* or by the empty string, and no body of a base block shows in the output.
C3_BlockOverwriteOrErase ==
    /\ (pc = "include" /\ InheritanceApplied) =>
           content = OverwriteOrErase(files[BaseOf(staged.read)], blocks, 1)
    /\ (Rendered /\ InheritanceApplied) =>
           \A body \in RegionBodies(files[BaseOf(staged.read)]) :
               body # <<>> => ~Contains(result.text, body)

\* ------------------------------------------------------------------ C4
\* C4 (variable values come from the caller): the substitution stage replaces
\* exactly the placeholders of the keys of the context passed to the call, by
\* that context's values; a key the context lacks is not substituted.
C4_ValuesFromCaller ==
    pc = "default" => content = ReplaceVars(context, staged.include)

\* ------------------------------------------------------------------ C5
\* Spacings of a placeholder other than the two canonical forms: more spaces,
\* or a space on one side only.
IrregularForms(key) ==
    { Placeholder(<<SP, SP>>, key),
      <<LB, LB, SP>> \o key \o <<RB, RB>>,
      <<LB, LB>> \o key \o <<SP, RB, RB>> }

Bound(ident, context_) == \E k \in 1..Len(context_) : context_[k].key = ident
BoundValue(ident, context_) ==
    context_[CHOOSE k \in 1..Len(context_) : context_[k].key = ident].value

\* C6 (default literal precedence): a placeholder
\* {{ identifier | default(value="literal") }} becomes the literal in the
\* default stage and shows as the literal in the output, whether or not the
\* caller's context binds the identifier; the bound value never shows.
C6_DefaultLiteralPrecedence ==
    LET ph == DefaultPlaceholder(Present, Literal) IN
    /\ pc = "strip" =>
           /\ Count(content, ph) = 0
           /\ Count(content, Literal) = Count(staged.vars, Literal)
           /\ Len(content) = Len(staged.vars) - Count(staged.vars, ph) * (Len(ph) - Len(Literal))
    /\ Rendered =>
           /\ Count(result.text, Literal) = Count(staged.include, ph)
           /\ Bound(Present, context) =>
                  Count(result.text, BoundValue(Present, context)) = 0

\* the identifier is bound by the caller and the literal was rendered
C6_Witness ==
    /\ Rendered
    /\ Bound(Present, context)
    /\ staged.read = DefaultPlaceholder(Present, Literal)
    /\ result.text = Literal

\* ------------------------------------------------------------------ C7
\* C7 (top-level absence): render_template returns None exactly when the
\* top-level template is not on disk; with the template on disk it returns
\* text, also with the base or an include target missing.
C7_TopLevelAbsence ==
    pc = "done" =>
        /\ result = None <=> template_path \notin DOMAIN files
        /\ template_path \in DOMAIN files => result.kind = "text"

\* a render of a missing template has returned None
C7_Witness ==
    pc = "done" /\ template_path \notin DOMAIN files /\ result = None

\* ------------------------------------------------------------------ C8
Marker(path) == <<MARK_OPEN>> \o path \o <<MARK_CLOSE>>

\* the quoted paths of the include directives of s whose file is not on disk
MissingIncludes(s, fs) ==
    LET ms == FindIter("include", s, 1) IN
    {ms[k].g1 : k \in {j \in 1..Len(ms) : THEME_DIR \o ms[j].g1 \notin DOMAIN fs}}

\* C8 (missing include marker): every include directive of the working text
\* whose target is not on disk is replaced by the comment naming the path; the
\* comment is in the returned document, and the render returns text.
C8_MissingIncludeMarker ==
    \A path \in MissingIncludes(staged.inherit, files) :
        LET directives == Count(staged.inherit, Directive("include", path)) IN
        /\ pc = "vars" =>
               /\ Count(content, Marker(path)) = directives
               /\ Count(content, Directive("include", path)) = 0
        /\ pc = "done" =>
               /\ result.kind = "text"
               /\ Count(result.text, Marker(path)) = directives

\* the render of a template whose include target is missing returned the marker
C8_Witness ==
    /\ Rendered
    /\ IncPath \notin DOMAIN files
    /\ staged.read = <<"x">> \o Directive("include", IncRef)
    /\ result.text = <<"x">> \o Marker(IncRef)

\* ------------------------------------------------------------------ C9
\* C9 (missing base falls back silently): with an extends directive whose base
\* is not on disk, no block is extracted, the text handed to the Include
\* Resolver is the child's own text, and the render returns text.
C9_MissingBaseFallsBack ==
    (DeclaresBase /\ BaseOf(staged.read) \notin DOMAIN files) =>
        /\ PastExtends =>
               /\ staged.inherit = files[template_path]
               /\ blocks = <<>>
        /\ pc = "include" => content = files[template_path]
        /\ pc = "done" => result.kind = "text"

\* a child with a block declaration was rendered without its base
C9_Witness ==
    /\ Rendered
    /\ BasePath \notin DOMAIN files
    /\ staged.read = Directive("extends", BaseRef) \o BlockDecl(BlockA, <<"1">>)
    /\ staged.inherit = staged.read
    /\ result.text = <<"1">>

\* ------------------------------------------------------------------ C10
\* the declarations (matches of the block pattern) in child, in source order
Declared(child) == FindIter("block_dotall", child, 1)

\* base has a block region for name whose body stays on one line
HasLineRegion(base, name) ==
    LET ms == Declared(base) IN
    \E k \in 1..Len(ms) : ms[k].g1 = name /\ ~Contains(ms[k].g2, <<NL>>)

\* C10 (duplicate block last-wins): for a name the child declares more than
\* once, the Block Map holds the body of the last declaration; that body, and
\* no earlier one, stands in the base's region of that name and in the output.
C10_DuplicateLastWins ==
    (PastExtends /\ InheritanceApplied) =>
        LET child == staged.read
            ms == Declared(child)
        IN  \A k \in 1..Len(ms) :
                LET name == ms[k].g1
                    later == {j \in (k + 1)..Len(ms) : ms[j].g1 = name}
                    earlier == {ms[j].g2 : j \in {i \in 1..(k - 1) : ms[i].g1 = name}}
                           \ {ms[k].g2}
                IN  (later = {} /\ \E j \in 1..(k - 1) : ms[j].g1 = name) =>
                        /\ blocks[name] = ms[k].g2
                        /\ HasLineRegion(files[BaseOf(child)], name) =>
                               /\ Contains(staged.inherit, ms[k].g2)
                               /\ \A e \in earlier : ~Contains(staged.inherit, e)
                               /\ Rendered =>
                                      /\ Contains(result.text, ms[k].g2)
                                      /\ \A e \in earlier : ~Contains(result.text, e)

\* a child declaring block a twice was rendered into a base with a region a
C10_Witness ==
    /\ Rendered
    /\ staged.read = Directive("extends", BaseRef)
                        \o BlockDecl(BlockA, <<"1">>) \o BlockDecl(BlockA, <<"2">>)
    /\ BasePath \in DOMAIN files
    /\ files[BasePath] = <<"x">> \o BlockDecl(BlockA, <<"d">>)
    /\ result.text = <<"x", "2">>

\* ------------------------------------------------------------------ C11
\* C11 (end-to-end scenario): with the base
\* <h1>{% block title %}Default{% endblock %}</h1><p>{% block body %}{% endblock %}</p>
\* and the child {% extends "base" %}{% block title %}Hello{% endblock %}, the
\* render of the child returns exactly <h1>Hello</h1><p></p>.
C11_Scenario ==
    (/\ pc = "done"
     /\ template_path = TopPath
     /\ IsFile(files, TopPath) /\ files[TopPath] = ScenarioChild
     /\ IsFile(files, BasePath) /\ files[BasePath] = ScenarioBase)
    => result = Text(<<"<h1>", "Hello", "</h1>", "<p>", "</p>">>)

\* the scenario's child was rendered over the scenario's base
C11_Witness ==
    /\ pc = "done"
    /\ template_path = TopPath
    /\ staged.read = ScenarioChild
    /\ Fetch(BasePath, "base") \in Fetched
    /\ IsFile(files, BasePath) /\ files[BasePath] = ScenarioBase
    /\ blocks = [n \in {<<"title">>} |-> <<"Hello">>]
    /\ result.text = <<"<h1>", "Hello", "</h1>", "<p>", "</p>">>

\* ------------------------------------------------------------------ C12
\* s with every close directive that repeats the block's name written without it
Unnamed(s) == StrReplace(s, NamedEndBlock(BlockA), EndBlock, 1)

\* C12 (block close syntax): a region closed by {% endblock name %} is
\* recognised like one closed by {% endblock %}: the Block Map of the child and
\* the text substituted into the base are those of the same templates written
\* with the unnamed close directive.
C12_NamedEndBlock ==
    (pc = "include" /\ InheritanceApplied) =>
        LET child == staged.read
            base == files[BaseOf(child)]
        IN  /\ blocks = ExtractBlocks(Unnamed(child))
            /\ content = SubstituteBlocks(Unnamed(base), ExtractBlocks(Unnamed(child)))

\* ------------------------------------------------------------------ C13
\* C13 (no caching, edits visible immediately): whatever renders and edits came
\* before, the result of a render is the one the provider's contents at the time
\* of that render determine, and the render has read the template from the
\* provider again.
C13_NoCaching ==
    pc = "done" =>
        /\ result = render_template(files, template_path, context)
        /\ result.kind = "text" =>
               /\ staged.read = files[template_path]
               /\ Fetch(template_path, "template") \in Fetched

\* the included file was edited after a render and the next render shows the
\* new text, not the earlier result
C13_Witness ==
    /\ pc = "done"
    /\ peer.pc = "done"
    /\ peer.template_path = template_path
    /\ peer.staged.read = <<"x">> \o Directive("include", IncRef)
    /\ peer.result = Text(<<"x", "y">>)
    /\ staged.read = peer.staged.read
    /\ result = Text(<<"x", "z">>)

\* ------------------------------------------------------------------ C14
\* C14 (independent concurrent renders): with the provider fixed, however the
\* steps of two render calls interleave, each call returns what the same call
\* returns when it runs alone, and what a call has read of the template is the
\* provider's text, never the other call's working text.
C14_IndependentRenders ==
    /\ pc = "done" => result = render_template(files, template_path, context)
    /\ peer.pc = "done" =>
           peer.result = render_template(files, peer.template_path, peer.context)
    /\ (pc \in {"extends", "include", "vars", "default", "strip", "return"}) =>
           staged.read = files[template_path]

\* one call has returned its document while the other, of another template, is
\* between two stages
C14_Witness ==
    /\ pc = "done"
    /\ template_path = TopPath
    /\ staged.read = Directive("extends", BaseRef) \o BlockDecl(BlockA, <<"1">>)
    /\ result = Text(<<"x", "1">>)
    /\ peer.pc = "vars"
    /\ peer.template_path = BasePath
    /\ peer.content = <<"x">> \o BlockDecl(BlockA, <<"d">>)

\* ------------------------------------------------------------------ C15
\* C15 (no fatal condition): for every template path, provider state and
\* context, a call of render_template ends by returning a text or None; no
\* stage raises an error to the caller.
C15_NoFatalCondition ==
    pc = "done" => result.kind \in {"text", "None"}

\* ------------------------------------------------------------------ C16
\* C16 (the HTTP layer writes the rendered document): for a request whose path
\* is a template route and whose render returns a text, the empty text
\* included, the response is 200 with exactly that text as its body, written
\* by the handler and not by the static file server.
C16_WritesRenderedDocument ==
    response.via \notin {"none", "pending"} =>
        LET clean_path == CleanPath(response.path) IN
        clean_path \in DOMAIN path_map =>
            LET document == render_template(files, TEMPLATES_DIR \o path_map[clean_path], <<>>)
            IN  document.kind = "text" =>
                    /\ response.via = "render"
                    /\ response.status = 200
                    /\ response.body = document.text

\* ------------------------------------------------------------------ C17
\* the stages after the given one have not produced anything yet
NotYet(stages) == \A st \in stages : staged[st] = <<>>

\* C17 (strict pipeline order): within one render the Inheritance Resolver,
\* the Include Resolver, Variable Substitution and the Tag Stripper run once
\* each in that order, each on the whole output of the one before.  So every
\* include directive of the inheritance-resolved text, whether it came from the
\* base or from an inserted child body, is inlined; the placeholder inside each
\* inlined text is substituted; and the directives inside the inlined text are
\* not taken up again by an earlier stage: the body of the block written in the
\* included file stays where it is.
C17_StrictPipelineOrder ==
    LET inlined == Count(staged.inherit, Directive("include", IncRef)) IN
    /\ pc \in {"idle", "exists", "read", "extends"} =>
           NotYet({"inherit", "include", "vars", "default", "strip"})
    /\ pc = "include" =>
           /\ content = staged.inherit
           /\ staged.inherit = Inherit(files, staged.read)
           /\ NotYet({"include", "vars", "default", "strip"})
    /\ pc = "vars" =>
           /\ content = staged.include
           /\ staged.include = ResolveIncludes(staged.inherit, files)
           /\ Count(content, <<"y">>) = inlined
           /\ Count(content, SpacedForm(SiteName)) = inlined
           /\ NotYet({"vars", "default", "strip"})
    /\ pc = "default" =>
           /\ content = staged.vars
           /\ staged.vars = ReplaceVars(SubstitutionData(context), staged.include)
           /\ Count(content, SpacedForm(SiteName)) = 0
           /\ Count(content, <<"RustPress">>) = inlined
           /\ NotYet({"default", "strip"})
    /\ pc = "strip" =>
           /\ content = staged.default
           /\ staged.default = CollapseDefaults(staged.vars)
           /\ NotYet({"strip"})
    /\ pc = "return" =>
           /\ content = staged.strip
           /\ staged.strip = Strip(staged.default)
    /\ Rendered =>
           /\ result.text = staged.strip
           /\ Count(result.text, <<"y", "RustPress", "z">>) = inlined
           /\ Len(result.text) >= 3 * inlined

\* an include directive of the base and one of the child's block body were
\* both inlined, and the placeholder of each inlined text substituted
C17_Witness ==
    /\ Rendered
    /\ staged.read = Directive("extends", BaseRef)
                        \o BlockDecl(BlockA, Directive("include", IncRef))
    /\ IsFile(files, BasePath)
    /\ files[BasePath] = BlockDecl(BlockA, <<"d">>) \o Directive("include", IncRef)
    /\ staged.inherit = Directive("include", IncRef) \o Directive("include", IncRef)
    /\ result.text = <<"y", "RustPress", "z", "y", "RustPress", "z">>

\* ------------------------------------------------------------------ C18
\* a block-open or a block-close directive stands at position i of s
BlockDirectiveAt(s, i) == BlockOpenAt(s, i).end # 0 \/ BlockCloseAt(s, i) # 0

\* C18 (inheritance output guarantee): once the Inheritance Resolver has
\* applied a base that is on disk, the working text holds no block-open and no
\* block-close directive, whatever the base text was.  (The bodies the child
\* declares hold no block directive here, so any that is left came from the base.)
C18_NoBlockDirectiveLeft ==
    (pc = "include" /\ InheritanceApplied) =>
        \A i \in 1..Len(content) : ~BlockDirectiveAt(content, i)

\* ------------------------------------------------------------------ C19
\* C19 (include single pass): every include directive that is in the working
\* text when the Include Resolver starts is replaced by the raw text of its
\* target and nothing else changes; the include, extends and block directives
\* inside the inlined text are left unresolved and are only removed by the Tag
\* Stripper, while the placeholder inside the inlined text is substituted.
C19_IncludeSinglePass ==
    LET directive == Directive("include", IncRef)
        present == Count(staged.inherit, directive)
    IN  /\ pc = "vars" =>
               /\ Count(content, ComposeIncText) = present
               /\ Len(content) =
                      Len(staged.inherit) + present * (Len(ComposeIncText) - Len(directive))
               /\ Count(content, directive) = present
               /\ Count(content, Directive("extends", BaseRef)) = present
               /\ Count(content, BlockDecl(BlockA, <<"z">>)) = present
        /\ Rendered =>
               /\ Count(result.text, <<"y">>) = present
               /\ Count(result.text, <<"y", "RustPress", "z">>) = present
               /\ \A i \in 1..Len(result.text) : result.text[i] # MARK_OPEN

\* a template with one include directive was rendered: the included text is
\* in the document once, with its placeholder substituted
C19_Witness ==
    /\ Rendered
    /\ staged.read = <<"x">> \o Directive("include", IncRef)
    /\ staged.include = <<"x">> \o ComposeIncText
    /\ result.text = <<"x", "y", "RustPress", "z">>

\* ------------------------------------------------------------------ C20
\* the files this render has read as a base
BasesLoaded == SelectSeq(fetched, LAMBDA f : f.role = "base")

\* C20 (single-level extends): a render loads at most one base, the one the
\* first extends directive of the top-level template names; the file an
\* extends directive of the base names is never read, nothing of its text is
\* in the document, and that directive, where it stands outside the block
\* regions of the base (a region is replaced with all it holds), stays in the
\* working text until the Tag Stripper removes it.
C20_SingleLevelExtends ==
    LET up == Directive("extends", RootRef) IN
    /\ Len(BasesLoaded) <= 1
    /\ \A k \in 1..Len(BasesLoaded) : BasesLoaded[k].path = BaseOf(staged.read)
    /\ \A f \in Fetched : f.path # RootPath
    /\ (pc = "include" /\ InheritanceApplied) =>
           /\ BasesLoaded = <<Fetch(BaseOf(staged.read), "base")>>
           /\ Count(content, up) >= Count(OverwriteOrErase(files[BaseOf(staged.read)], <<>>, 1), up)
    /\ pc = "strip" => Count(content, up) = Count(staged.inherit, up)
    /\ Rendered =>
           /\ Count(result.text, up) = 0
           /\ Count(result.text, <<"r">>) = 0
           /\ Count(result.text, <<"q">>) = 0

\* the base of the rendered child starts with an extends directive whose
\* target is on disk: the child's body was placed in the base and nothing more
C20_Witness ==
    /\ Rendered
    /\ staged.read = Directive("extends", BaseRef) \o BlockDecl(BlockA, <<"1">>)
    /\ IsFile(files, BasePath) /\ IsFile(files, RootPath)
    /\ files[BasePath] = Directive("extends", RootRef) \o BlockDecl(BlockA, <<"d">>)
    /\ staged.inherit = Directive("extends", RootRef) \o <<"1">>
    /\ fetched = <<Fetch(TopPath, "template"), Fetch(BasePath, "base")>>
    /\ result.text = <<"1">>

\* ------------------------------------------------------------------ C21
\* the matches of the include pattern in the text the Include Resolver was handed
IncludesHanded == FindIter("include", staged.inherit, 1)

\* by how much the replacements of the matches ms are longer than the directives
RECURSIVE Growth(_, _)
Growth(ms, fs) ==
    IF ms = <<>> THEN 0
    ELSE Len(replace_include(Head(ms), fs)) - Len(Directive("include", Head(ms).g1))
             + Growth(Tail(ms), fs)

\* the reads of a render are the template, at most one base, and at most one
\* read for each include directive of the working text; each directive is
\* replaced once, by the raw text of its target or by the marker
C21_ReadsBounded ==
    /\ pc \in {"idle", "exists", "read"} => Len(fetched) = 0
    /\ pc = "extends" => Len(fetched) = 1
    /\ pc = "include" => Len(fetched) <= 1 + 1
    /\ pc \in {"vars", "default", "strip", "return"} \/ Rendered =>
           /\ Len(fetched) <= 1 + 1 + Len(IncludesHanded)
           /\ Len(staged.include) = Len(staged.inherit) + Growth(IncludesHanded, files)

\* C21 (termination without cycle detection): every call of render_template
\* that has started returns, also for a template that includes itself, for
\* templates that include each other and for templates whose extends directives
\* name each other; each include directive is inlined once, and the call reads
\* at most the template, one base, and one file for each include directive of
\* the working text.
C21_Termination ==
    /\ []C21_ReadsBounded
    /\ (pc = "exists") ~> (pc = "done" /\ result.kind # "pending")

\* a template that includes itself was rendered: read twice, inlined once
C21_Witness ==
    /\ Rendered
    /\ template_path = TopPath
    /\ staged.read = <<"x">> \o Directive("include", TopPath)
    /\ fetched = <<Fetch(TopPath, "template"), Fetch(TopPath, "include")>>
    /\ staged.include = <<"x", "x">> \o Directive("include", TopPath)
    /\ result.text = <<"x", "x">>

\* ------------------------------------------------------------------ C22
\* The block-open directives of s that have no close directive of their own:
\* each close directive closes the nearest open one before it that is still
\* open.  open holds the positions still open, i is the scan position.
RECURSIVE OpenLeft(_, _, _)
OpenLeft(s, i, open) ==
    IF i > Len(s) THEN open
    ELSE IF BlockOpenAt(s, i).end # 0
    THEN OpenLeft(s, BlockOpenAt(s, i).end + 1, Append(open, i))
    ELSE IF BlockCloseAt(s, i) # 0
    THEN OpenLeft(s, BlockCloseAt(s, i) + 1,
                  IF open = <<>> THEN open ELSE SubSeq(open, 1, Len(open) - 1))
    ELSE OpenLeft(s, i + 1, open)

UnclosedOpens(s) == OpenLeft(s, 1, <<>>)

\* s without the open directives at the positions ps: the blocks not declared
RECURSIVE WithoutOpens(_, _)
WithoutOpens(s, ps) ==
    IF ps = <<>> THEN s
    ELSE LET p == ps[Len(ps)] IN
         WithoutOpens(Sub(s, 1, p - 1) \o Sub(s, BlockOpenAt(s, p).end + 1, Len(s)),
                      SubSeq(ps, 1, Len(ps) - 1))

\* C22 (unclosed block contributes nothing): a block-open directive of the
\* child without a close directive of its own gives no Block Map entry and
\* leaves the entries of the well-formed blocks as they are: the Block Map and
\* the text substituted into the base are those of the child without that
\* open directive.
C22_UnclosedContributesNothing ==
    (pc = "include" /\ InheritanceApplied) =>
        LET child == staged.read
            declared == WithoutOpens(child, UnclosedOpens(child))
        IN  /\ blocks = ExtractBlocks(declared)
            /\ content = SubstituteBlocks(files[BaseOf(child)], ExtractBlocks(declared))

\* ------------------------------------------------------------------ C23
\* C23 (non-greedy block matching): every body in the Block Map is the text
\* between a block-open directive and the first close directive after it, line
\* breaks included; it holds no close directive, and, the first close ending
\* the innermost open before it, no block-open directive either.
C23_NonGreedyInnermost ==
    (pc = "include" /\ InheritanceApplied) =>
        \A n \in DOMAIN blocks :
            /\ Contains(staged.read, BlockDecl(n, blocks[n]))
            /\ \A i \in 1..Len(blocks[n]) :
                   /\ BlockCloseAt(blocks[n], i) = 0
                   /\ BlockOpenAt(blocks[n], i).end = 0

\* ------------------------------------------------------------------ C24
\* C24 (include resolution root): the file read for an include directive is
\* the one at THEME_DIR joined with the quoted path, in whichever file the
\* directive stands (a top-level template in TEMPLATES_DIR, a base, a block
\* body of a child) and whatever lies beside that file; the base read for an
\* extends directive is the one at THEME_DIR joined with its quoted path.  A
\* file of the same name in the directory of the template is never read and
\* nothing of its text is in the document.
C24_ResolvedAtThemeRoot ==
    LET handed == IncludesHanded
        quoted == ExtendsMatch(staged.read).g1
    IN  /\ \A k \in 1..Len(fetched) :
               /\ fetched[k].role = "base" => fetched[k].path = THEME_DIR \o quoted
               /\ fetched[k].role = "include" =>
                      \E j \in 1..Len(handed) : fetched[k].path = THEME_DIR \o handed[j].g1
        /\ pc = "vars" =>
               /\ SelectSeq(fetched, LAMBDA f : f.role = "include")
                      = [k \in 1..Len(FetchesOf(files, TargetsOf(handed))) |->
                            Fetch(THEME_DIR \o handed[k].g1, "include")]
               /\ Count(content, <<"z">>) = 0
               /\ IsFile(files, IncPath) =>
                      Count(content, files[IncPath]) = Count(staged.inherit, files[IncPath])
                          + Count(staged.inherit, Directive("include", IncRef))
               /\ ~IsFile(files, IncPath) =>
                      Count(content, Marker(IncRef))
                          = Count(staged.inherit, Directive("include", IncRef))
        /\ (Rendered /\ IsFile(files, TEMPLATES_DIR \o BaseRef)) =>
               /\ Count(result.text, <<"z">>) = 0
               /\ quoted = BaseRef =>
                      Count(result.text, <<"x">>) = 1 /\ Count(result.text, <<"r">>) = 0
               /\ quoted = TEMPLATES_DIR \o BaseRef =>
                      Count(result.text, <<"r">>) = 1 /\ Count(result.text, <<"x">>) = 0

\* a child in TEMPLATES_DIR was rendered with "base" and "inc" on disk both in
\* THEME_DIR and beside the child: the files of THEME_DIR were read
C24_Witness ==
    /\ Rendered
    /\ template_path = TopPath
    /\ staged.read = Directive("extends", BaseRef)
                        \o BlockDecl(BlockA, Directive("include", IncRef))
    /\ IsFile(files, TEMPLATES_DIR \o BaseRef) /\ IsFile(files, TEMPLATES_DIR \o IncRef)
    /\ fetched = <<Fetch(TopPath, "template"), Fetch(BasePath, "base"),
                   Fetch(IncPath, "include"), Fetch(IncPath, "include")>>
    /\ result.text = <<"x", "y", "y">>

\* ------------------------------------------------------------------ C25
\* C25 (render under concurrent provider changes): when another process
\* removes or replaces the template, the base or an include target while a
\* render is in progress, also between the render's test of a path and its
\* read of that path, the call ends by returning a text or None and raises
\* nothing.
C25_SurvivesProviderChanges ==
    pc = "done" => result # NotFound /\ result.kind \in {"text", "None"}

\* ------------------------------------------------------------------ C26
\* C26 (render is read-only): no statement of a call of render_template
\* changes a file of the provider or the context mapping the caller passed;
\* from the call to the return they are what they were, and the call leaves
\* nothing but its returned value.  (The module-level SITE_DATA is only
\* iterated: no statement assigns to it, and the model holds it as a constant.)
C26_ReadOnly ==
    [][(pc \in Running) =>
          (files' = files /\ context' = context /\ template_path' = template_path
               /\ peer' = peer /\ response' = response)]_vars

\* a call with a context of the caller's has returned a text built from site
\* data, two files and an included file
C26_Witness ==
    /\ Rendered
    /\ context # <<>>
    /\ Len(fetched) = 3
    /\ Count(result.text, <<"RustPress">>) = 1

\* ------------------------------------------------------------------ C27
\* every block-open directive of s has its close directive and no block lies
\* inside another: the directives pair off into the declarations
Paired(s) ==
    /\ Cardinality({i \in 1..Len(s) : BlockOpenAt(s, i).end # 0}) = Len(Declared(s))
    /\ Cardinality({i \in 1..Len(s) : BlockCloseAt(s, i) # 0}) = Len(Declared(s))

\* the names of the block regions of base
RegionNames(base) == {Declared(base)[k].g1 : k \in 1..Len(Declared(base))}

\* C27 (only the base and the bodies it names): when a child extends a base
\* that is on disk, the text handed on is the base with each region replaced
\* by the child's body of that name or by nothing; a body the child declares
\* under a name the base has no region for is nowhere in it, nor is the text
\* the child holds outside its blocks, and neither is in the document.  (For a
\* child whose block directives pair off; a block inside another block is part
\* of that block's body.)
C27_OnlyBaseAndNamedBodies ==
    (InheritanceApplied /\ Paired(staged.read)) =>
        LET base == files[BaseOf(staged.read)]
            named == [n \in DOMAIN blocks \cap RegionNames(base) |-> blocks[n]]
        IN  /\ PastExtends => staged.inherit = OverwriteOrErase(base, named, 1)
            /\ (pc = "include" \/ Rendered) =>
                   LET out == IF Rendered THEN result.text ELSE content IN
                   /\ (\A n \in DOMAIN named : Count(named[n], <<"q">>) = 0) =>
                          Count(out, <<"q">>) = 0
                   /\ BlockB \notin RegionNames(base) => Count(out, <<"3">>) = 0
                   /\ BlockB \in RegionNames(base) =>
                          Count(out, <<"3">>) = IF BlockB \in DOMAIN blocks THEN 1 ELSE 0

\* a child with text outside its blocks and a block b was rendered over a base
\* that has a region a only: the document is the base's text and the body of a
C27_Witness ==
    /\ Rendered
    /\ Paired(staged.read)
    /\ Count(OverwriteOrErase(staged.read, <<>>, 1), <<"q">>) = 1
    /\ staged.read = Directive("extends", BaseRef) \o BlockDecl(BlockA, <<"2", NL, "2">>)
                        \o <<"q">> \o BlockDecl(BlockB, <<"3">>)
    /\ files[BasePath] = <<"x">> \o BlockDecl(BlockA, <<"d">>)
    /\ DOMAIN blocks = {BlockA, BlockB}
    /\ result.text = <<"x", "2", NL, "2">>

\* ------------------------------------------------------------------ C28
\* the default-qualified placeholders of the templates whose identifier is a
\* dotted key: site.name is bound in SITE_DATA, site.title is bound nowhere
DottedDefaults ==
    { DefaultPlaceholder(SiteName, <<"Hello">>),
      DefaultPlaceholder(<<"site", DOT, "title">>, <<"Hello">>) }

\* the number of pieces of a template that render as one token: plain text and
\* the default-qualified placeholders of a plain identifier
PlainPieces(t) ==
    Count(t, <<"x">>) + Count(t, DefaultPlaceholder(Present, Literal))
        + Count(t, DefaultPlaceholder(<<"missing">>, <<"Default">>))

\* C28: a default-qualified placeholder whose identifier is a dotted key, bound
\* or not, is still whole after variable substitution and after default
\* collapsing, is gone after the tag stripper, and leaves nothing in the result:
\* neither its literal nor a value the key is bound to.
C28_DottedDefaultRendersEmpty ==
    Rendered =>
        /\ \A d \in DottedDefaults :
              /\ Count(staged.vars, d) = Count(staged.read, d)
              /\ Count(staged.default, d) = Count(staged.read, d)
              /\ Count(staged.strip, d) = 0
        /\ Count(result.text, <<"Hello">>) = 0
        /\ Count(result.text, <<"RustPress">>) = 0
        /\ Count(result.text, <<"CMS">>) = 0
        /\ Len(result.text) = PlainPieces(staged.read)

C28_Witness ==
    /\ Rendered
    /\ staged.read = <<"x">> \o DefaultPlaceholder(SiteName, <<"Hello">>)
    /\ Bound(SiteName, context)
    /\ staged.default = staged.read
    /\ result.text = <<"x">>

\* ------------------------------------------------------------------ C29
\* the Jinja2 variant has answered for the template the regex engine rendered
Both == Rendered /\ response.via = "jinja"

\* C29: the default filter of the Jinja2 variant answers the value when it is a
\* non-empty string and the literal when it is undefined or empty; so a
\* default-qualified placeholder of a plain identifier bound to a non-empty
\* value renders as the value there and as the literal in render_template,
\* and the two agree when the identifier is unbound or bound to the empty text.
C29_JinjaDefaultPrefersValue ==
    /\ \A val \in {Undefined, Str(<<>>), Str(<<"v">>)} :
          tera_default(val, Str(Literal)) = IF val = Str(<<"v">>) THEN val ELSE Str(Literal)
    /\ Both =>
          LET n1 == Count(staged.read, DefaultPlaceholder(Present, Literal))
              n2 == Count(staged.read, DefaultPlaceholder(<<"missing">>, <<"Default">>))
              v == Lookup(context, Present)
          IN /\ Count(result.text, Literal) = n1
             /\ Count(result.text, <<"v">>) = 0
             /\ Count(result.text, <<"Default">>) = n2
             /\ Count(response.body, <<"Default">>) = n2
             /\ IF v = Str(<<"v">>)
                THEN Count(response.body, <<"v">>) = n1 /\ Count(response.body, Literal) = 0
                ELSE Count(response.body, <<"v">>) = 0 /\ Count(response.body, Literal) = n1

C29_Witness ==
    /\ Both
    /\ staged.read = DefaultPlaceholder(Present, Literal)
    /\ Lookup(context, Present) = Str(<<"v">>)
    /\ response.body = <<"v">>
    /\ result.text = Literal

====
